---- MODULE Spec2Model ----
(***************************************************************************)
(* Model of src/main.py: the AmazonScraper crawl loop                      *)
(* (scrape_search_results), its page fetcher (make_request) and the        *)
(* session rotation state kept on the scraper object.                      *)
(*                                                                         *)
(* The site is the environment: every GET draws its outcome (status code   *)
(* or exception, and for a 200 the parsed document) from small sets.       *)
(* Python None is modelled by the empty sequence, an optional number x by  *)
(* <<x>>, a URL by the sequence of its characters.                         *)
(***************************************************************************)
EXTENDS Integers, Sequences, FiniteSets, TLC

\* ------------------------------------------------------------ bounds
MaxProducts == 2          \* maxProducts is drawn from 0..MaxProducts
MaxLinks == 2             \* product links on one search page
MaxSessionRequests == 2   \* sessionMin/MaxRequests are drawn from 1..MaxSessionRequests
MaxSessions == 2          \* rotations followed in one run
MaxTime == 1              \* clock seconds followed
CountCap == 2             \* how far the counters that are only logged are counted

\* ------------------------------------------------- program constants
Retries == 3              \* make_request(url, retries=3)
PriceLimit == 100         \* if product['price'] > 100: return None
AsinLen == 10             \* r'/dp/([A-Z0-9]{10})'
Inf == 1000000            \* float('inf'): above every request count

None == <<>>

\* ------------------------------------------------------------- URLs
AsinChars ==
  {"A","B","C","D","E","F","G","H","I","J","K","L","M","N","O","P","Q","R",
   "S","T","U","V","W","X","Y","Z","0","1","2","3","4","5","6","7","8","9"}

DpPrefix == <<"/","d","p","/">>

AsinA == <<"B","0","0","0","0","0","0","0","0","A">>
AsinB == <<"B","0","0","0","0","0","0","0","0","B">>

\* /dp/B00000000A, /x/dp/B00000000A (another URL of the same product),
\* /dp/B00000000B and /dp/b01 (a product link that holds no ASIN)
UrlA == DpPrefix \o AsinA
UrlA2 == <<"/","x">> \o DpPrefix \o AsinA
UrlB == DpPrefix \o AsinB
UrlN == DpPrefix \o <<"b","0","1">>

ProductUrls == {UrlA, UrlA2, UrlB, UrlN}

Search1 == <<"/","s","1">>
Search2 == <<"/","s","2">>
SearchUrls == {Search1, Search2}
StartUrl == Search1

\* re.search(r'/dp/([A-Z0-9]{10})', url): the leftmost match's group, or None
AsinMatchesAt(url, i) ==
  /\ i + 3 + AsinLen <= Len(url)
  /\ SubSeq(url, i, i + 3) = DpPrefix
  /\ \A j \in 1..AsinLen : url[i + 3 + j] \in AsinChars

extract_asin(url) ==
  LET starts == {i \in 1..Len(url) : AsinMatchesAt(url, i)}
  IN  IF starts = {} THEN None
      ELSE LET i == CHOOSE k \in starts : \A m \in starts : k <= m
           IN  SubSeq(url, i + 4, i + 3 + AsinLen)

\* ------------------------------------------------------- documents
\* The extracted price of a product page: None, or a number
Prices == {100, 150}
PriceOutcomes == {None} \cup {<<p>> : p \in Prices}

\* extract_product_links returns a list without repeats
LinkLists ==
  {l \in UNION {[1..n -> ProductUrls] : n \in 0..MaxLinks} :
     \A i, j \in 1..Len(l) : l[i] = l[j] => i = j}

NoSoup == [ok |-> FALSE, links |-> <<>>, next |-> None, price |-> None]

\* The sites followed. The crawl loop never reads the session state and the
\* session state never reads a document, so the state space is kept a sum:
\* the whole catalogue is crawled, for every maxProducts, by a scraper that
\* has no proxy and never rotates, and every proxy and rotation configuration
\* crawls, with maxProducts = 1, a site of one search page and one product.
WholeSite == LinkLists
SmallSite == {<<>>, <<UrlN>>}

ProductDocs ==
  {[ok |-> TRUE, links |-> <<>>, next |-> None, price |-> p] : p \in PriceOutcomes}

Statuses == {"200", "503", "404", "error", "proxy_error"}

VARIABLES
  max_products, session_rotation_enabled, proxy_configuration,
  session_min_requests, session_max_requests,
  products, processed_asins,
  current_session_id, current_session_requests, session_rotation_limit,
  session_count, emergency_rotations, session_ids,
  pc, current_url, page_count, soup, product_links, link, product_soup,
  caller, url, attempt, status, gets, sent_session, proxy_url,
  events, now, site

config == <<max_products, session_rotation_enabled, proxy_configuration,
            session_min_requests, session_max_requests>>
session == <<current_session_id, current_session_requests, session_rotation_limit,
             session_count, emergency_rotations, session_ids>>
crawl == <<products, processed_asins, current_url, page_count, soup,
           product_links, link, product_soup>>
request == <<caller, url, attempt, status, gets, sent_session, proxy_url>>
vars == <<config, session, crawl, request, pc, events, now, site>>

\* the link lists a search page of this site may hold
site_links == IF site = "whole" THEN WholeSite ELSE SmallSite

\* the next-page links a search page of this site may hold
site_next == IF site = "whole" THEN {None} \cup SearchUrls ELSE {None, StartUrl}

\* the documents a search page may parse to on this site
SearchDocs ==
  {[ok |-> TRUE, links |-> l, next |-> n, price |-> None] :
     l \in site_links, n \in site_next}

\* ------------------------------------------------ session rotation
\* mutant of NewLimit: the upper end is overshot by one
NewLimitPastMax == session_min_requests..(session_max_requests + 1)

\* random.randint(session_min_requests, session_max_requests)
NewLimit == session_min_requests..session_max_requests

\* the decimal digits of a natural number, as an f-string formats it
Digits == <<"0", "1", "2", "3", "4", "5", "6", "7", "8", "9">>
RECURSIVE str(_)
str(n) ==
  IF n < 10 THEN <<Digits[n + 1]>>
  ELSE str(n \div 10) \o <<Digits[(n % 10) + 1]>>

\* mutant of EmergencySessionId: the session number is left out of the id
EmergencySessionIdByTime(t, n) == <<"emergency_session_">> \o str(t)

\* mutant of NextSessionCount: a rotation counts twice
NextSessionCountTwice == session_count + 2

\* self.session_count += 1
NextSessionCount == session_count + 1

\* f"session_{int(time.time())}"
InitialSessionId(t) == <<"session_">> \o str(t)
\* f"session_{int(time.time())}_{self.session_count}"
ScheduledSessionId(t, n) == <<"session_">> \o str(t) \o <<"_">> \o str(n)
\* f"emergency_session_{int(time.time())}_{self.session_count}"
EmergencySessionId(t, n) ==
  <<"emergency_session_">> \o str(t) \o <<"_">> \o str(n)

\* mutant of ShouldRotate: > for >=
ShouldRotateStrict ==
  /\ session_rotation_enabled
  /\ current_session_requests > session_rotation_limit

\* rotate_session_if_needed: its test
ShouldRotate ==
  /\ session_rotation_enabled
  /\ current_session_requests >= session_rotation_limit

\* mutant of EmergencyEligible: the feature flag is not tested
EmergencyIgnoresFlag == proxy_configuration

\* mutant of EmergencyEligible: the proxy configuration is not tested
EmergencyIgnoresProxy == session_rotation_enabled

\* mutant of EmergencyEligible: no emergency rotation on the last attempt
EmergencyNotOnLastAttempt ==
  proxy_configuration /\ session_rotation_enabled /\ attempt < Retries - 1

\* the 503 branch: if self.proxy_configuration and self.session_rotation_enabled
EmergencyEligible == proxy_configuration /\ session_rotation_enabled

\* self.current_session_requests += 1
CountRequest(c) ==
  IF session_rotation_enabled \/ c < CountCap THEN c + 1 ELSE c

\* if response.status_code == 200
IsSuccess(st) == st = "200"

\* mutant of LastAttempt: one attempt too many
LastAttemptOneMore(a) == a + 1 > Retries

\* for attempt in range(retries): whether attempt a was the last one
LastAttempt(a) == a + 1 >= Retries

Init ==
  /\ \/ /\ site = "small"
        /\ max_products = 1
        /\ proxy_configuration \in BOOLEAN
        /\ \/ /\ session_rotation_enabled = TRUE
              /\ session_min_requests \in 1..MaxSessionRequests
              /\ session_max_requests \in session_min_requests..MaxSessionRequests
           \/ /\ session_rotation_enabled = FALSE
              /\ session_min_requests = 1
              /\ session_max_requests = MaxSessionRequests
     \/ /\ site = "whole"
        /\ max_products \in 0..MaxProducts
        /\ proxy_configuration = FALSE
        /\ session_rotation_enabled = FALSE
        /\ session_min_requests = 1
        /\ session_max_requests = MaxSessionRequests
  /\ products = <<>>
  /\ processed_asins = {}
  /\ now = 0
  /\ current_session_id = InitialSessionId(0)
  /\ session_ids = <<current_session_id>>
  /\ current_session_requests = 0
  /\ session_rotation_limit \in
       IF session_rotation_enabled THEN NewLimit ELSE {Inf}
  /\ session_count = 0
  /\ emergency_rotations = 0
  /\ pc = "while"
  /\ current_url = StartUrl
  /\ page_count = 0
  /\ soup = NoSoup
  /\ product_links = <<>>
  /\ link = None
  /\ product_soup = NoSoup
  /\ caller = "none"
  /\ url = None
  /\ attempt = 0
  /\ status = "none"
  /\ gets = 0
  /\ sent_session = None
  /\ proxy_url = None
  /\ events = <<>>


\* ------------------------------------------------------ make_request
\* make_request has returned: its locals are gone
ReturnedFrom ==
  /\ caller' = "none"
  /\ url' = None
  /\ attempt' = 0
  /\ status' = "none"
  /\ gets' = 0
  /\ sent_session' = None
  /\ proxy_url' = None
  /\ events' = <<>>

\* return from make_request to the call site in scrape_search_results
Return(doc) ==
  IF caller = "search"
  THEN /\ soup' = doc
       /\ pc' = "search_ret"
       /\ UNCHANGED product_soup
  ELSE /\ product_soup' = doc
       /\ pc' = "product_ret"
       /\ UNCHANGED soup

\* await self.make_request(u), up to its retry loop: the one call of
\* rotate_session_if_needed, made before the first attempt
CallMakeRequest(u, c) ==
  /\ ShouldRotate => session_count < MaxSessions
  /\ IF ShouldRotate
     THEN \E t \in now..MaxTime, lim \in NewLimit :
            /\ now' = t
            /\ session_count' = NextSessionCount
            /\ current_session_id' = ScheduledSessionId(t, NextSessionCount)
            /\ session_ids' = Append(session_ids, current_session_id')
            /\ current_session_requests' = 0
            /\ session_rotation_limit' = lim
     ELSE UNCHANGED <<now, session_count, current_session_id, session_ids,
                      current_session_requests, session_rotation_limit>>
  /\ UNCHANGED emergency_rotations
  /\ caller' = c
  /\ url' = u
  /\ attempt' = 0
  /\ status' = "none"
  /\ gets' = 0
  /\ UNCHANGED <<sent_session, proxy_url>>
  /\ events' = <<>>
  /\ pc' = "request"

DocsFor(c) == IF c = "search" THEN SearchDocs ELSE ProductDocs

\* proxy_configuration.new_url(session_id=...): the proxy URL of that session
new_url(session_id) == <<"proxy", session_id>>

\* mutant of ProxyUrl: the proxy URL of an earlier attempt of the call is kept
ProxyUrlKept ==
  IF proxy_configuration
  THEN IF proxy_url # None THEN proxy_url ELSE new_url(current_session_id)
  ELSE None

\* proxy_url = None; if self.proxy_configuration: proxy_url = await new_url(...)
ProxyUrl ==
  IF proxy_configuration THEN new_url(current_session_id) ELSE None

\* mutant of PolitenessDelay: the first attempt of a call does not sleep
PolitenessDelayOnRetry == IF attempt = 0 THEN <<>> ELSE <<"delay">>

\* time.sleep(random.uniform(self.min_delay, self.max_delay))
PolitenessDelay == <<"delay">>

\* mutant of Backoff: every failed attempt sleeps the escalated delay
BackoffOnEveryFailure(st, a) ==
  IF st = "503" THEN <<"cooldown">>
  ELSE IF st # "200" /\ a < Retries - 1 THEN <<"escalated">>
  ELSE <<>>

\* the sleep that follows a failed attempt a: time.sleep(random.uniform(10, 15))
\* after a 503; in the except branch, if attempt < retries - 1,
\* time.sleep(random.uniform(self.min_delay * 2, self.max_delay * 2))
Backoff(st, a) ==
  IF st = "503" THEN <<"cooldown">>
  ELSE IF st \in {"error", "proxy_error"} /\ a < Retries - 1 THEN <<"escalated">>
  ELSE <<>>

\* one pass of the retry loop: the GET and the handling of its outcome. events
\* is the sleeps and the GET of the pass, in the order they are made.
\* "proxy_error" is an exception raised by proxy_configuration.new_url, before
\* the counters are incremented and the GET is issued.
Attempt ==
  /\ pc = "request"
  /\ \E st \in Statuses :
       /\ (st = "proxy_error") => proxy_configuration
       /\ status' = st
       /\ attempt' = attempt + 1
       /\ LET sentGet == st # "proxy_error"
          IN  /\ gets' = IF sentGet THEN gets + 1 ELSE gets
              /\ sent_session' = IF sentGet THEN current_session_id ELSE sent_session
              /\ proxy_url' = IF sentGet THEN ProxyUrl ELSE None
              /\ events' = PolitenessDelay
                             \o (IF sentGet THEN <<"get">> ELSE <<>>)
                             \o Backoff(st, attempt)
              /\ IF st = "503" /\ EmergencyEligible
                 THEN /\ session_count < MaxSessions
                      /\ \E t \in now..MaxTime, lim \in NewLimit :
                           /\ now' = t
                           /\ emergency_rotations' = emergency_rotations + 1
                           /\ session_count' = NextSessionCount
                           /\ current_session_id' =
                                EmergencySessionId(t, NextSessionCount)
                           /\ session_ids' =
                                Append(session_ids, current_session_id')
                           /\ current_session_requests' = 0
                           /\ session_rotation_limit' = lim
                 ELSE /\ current_session_requests' =
                           IF sentGet THEN CountRequest(current_session_requests)
                           ELSE current_session_requests
                      /\ UNCHANGED <<now, emergency_rotations, session_count, session_ids,
                                     current_session_id, session_rotation_limit>>
       /\ IF IsSuccess(st)
          THEN \E doc \in DocsFor(caller) : Return(doc)
          ELSE IF LastAttempt(attempt)
               THEN Return(NoSoup)
               ELSE UNCHANGED <<pc, soup, product_soup>>
  /\ UNCHANGED <<site, config, products, processed_asins, current_url, page_count,
                 product_links, link, caller, url>>

\* ---------------------------------------------- extract_product_data
\* mutant of PriceFiltered: the filter compares with ten times the limit
PriceFilteredWrongLimit(price) ==
  /\ price # None
  /\ price[1] # 0
  /\ price[1] > PriceLimit * 10

\* mutant of PriceFiltered: a price equal to the limit is filtered too
PriceFilteredAtLimit(price) ==
  /\ price # None
  /\ price[1] # 0
  /\ price[1] >= PriceLimit

\* the price filter: a truthy numeric price above the limit
PriceFiltered(price) ==
  /\ price # None
  /\ price[1] # 0
  /\ price[1] > PriceLimit

\* None, or <<the product record>>
extract_product_data(doc, u) ==
  LET product == [url |-> u, asin |-> extract_asin(u), price |-> doc.price]
  IN  IF PriceFiltered(product.price) THEN None ELSE <<product>>

\* get_next_page_url: the next-page link of a search page, or None
get_next_page_url(doc) == doc.next

\* ---------------------------------------------- scrape_search_results
\* mutant of LoopCondition: the emitted count is not looked at
LoopConditionIgnoresCount == current_url # None

\* while current_url and len(self.products) < max_products
LoopCondition == current_url # None /\ Len(products) < max_products

\* mutant of BreakCondition: > for >=
BreakConditionStrict == Len(products) > max_products

\* if len(self.products) >= max_products: break
BreakCondition == Len(products) >= max_products

\* mutant of AlreadyProcessed: the links are compared, not their ASINs
AlreadyProcessedByUrl(asin) ==
  asin # None /\ \E i \in 1..Len(products) : products[i].url = asin

\* if asin and asin in self.processed_asins: continue
AlreadyProcessed(asin) == asin # None /\ asin \in processed_asins

\* page_count += 1 (the count is only logged)
CountPage(c) == IF c < CountCap THEN c + 1 ELSE c

WhileLoop ==
  /\ pc = "while"
  /\ IF LoopCondition
     THEN /\ page_count' = CountPage(page_count)
          /\ CallMakeRequest(current_url, "search")
     ELSE /\ pc' = "Terminal"
          /\ UNCHANGED <<session, request, events, now, page_count>>
  /\ UNCHANGED <<site, config, products, processed_asins, current_url, soup,
                 product_links, link, product_soup>>

\* mutant of SearchFailed: the failed fetch of a search page is not noticed
SearchFailedUnnoticed == FALSE

\* if not soup (the search page)
SearchFailed == ~soup.ok

\* if not soup: break; else product_links = self.extract_product_links(soup)
SearchResult ==
  /\ pc = "search_ret"
  /\ IF SearchFailed
     THEN /\ pc' = "Terminal"
          /\ UNCHANGED product_links
     ELSE /\ pc' = "for"
          /\ product_links' = soup.links
  /\ ReturnedFrom
  /\ UNCHANGED <<site, config, session, now, products, processed_asins,
                 current_url, page_count, soup, link, product_soup>>

\* one pass of "for link in product_links", up to the product page's fetch
ForLink ==
  /\ pc = "for"
  /\ IF product_links = <<>>
     THEN /\ pc' = "next"
          /\ UNCHANGED <<session, request, events, now, product_links, link>>
     ELSE LET l == Head(product_links)
          IN  /\ link' = l
              /\ IF BreakCondition
                 THEN /\ pc' = "next"
                      /\ UNCHANGED <<session, request, events, now, product_links>>
                 ELSE IF AlreadyProcessed(extract_asin(l))
                      THEN /\ product_links' = Tail(product_links)
                           /\ UNCHANGED <<session, request, events, now, pc>>
                      ELSE /\ product_links' = Tail(product_links)
                           /\ CallMakeRequest(l, "product")
  /\ UNCHANGED <<site, config, products, processed_asins, current_url, page_count,
                 soup, product_soup>>

\* mutant of RememberAsin: the ASIN is added whether there is one or not
RememberAsinAlways(asin) == processed_asins \cup {asin}

\* mutant of RememberAsin: the ASIN of an emitted record is not added
RememberAsinNever(asin) == processed_asins

\* if asin: self.processed_asins.add(asin)
RememberAsin(asin) ==
  IF asin # None THEN processed_asins \cup {asin} ELSE processed_asins

\* mutant of ProductFailed: the failed fetch of a product page is not noticed
ProductFailedUnnoticed == FALSE

\* if not product_soup
ProductFailed == ~product_soup.ok

\* the rest of the pass: extract, filter, append, remember the ASIN, push
ProductResult ==
  /\ pc = "product_ret"
  /\ pc' = "for"
  /\ ReturnedFrom
  /\ product_soup' = NoSoup
  /\ IF ProductFailed
     THEN UNCHANGED <<products, processed_asins>>
     ELSE LET product_data == extract_product_data(product_soup, link)
              asin == extract_asin(link)
          IN  IF product_data # None
              THEN /\ products' = Append(products, product_data[1])
                   /\ processed_asins' = RememberAsin(asin)
              ELSE UNCHANGED <<products, processed_asins>>
  /\ UNCHANGED <<site, config, session, now, current_url, page_count, soup,
                 product_links, link>>

\* time.sleep(random.uniform(self.min_delay * 1.5, self.max_delay * 1.5))
PageDelay == <<"page_delay">>

\* current_url = self.get_next_page_url(soup, current_url); del soup,
\* product_links; the sleep that ends the pass
NextPage ==
  /\ pc = "next"
  /\ pc' = "while"
  /\ current_url' = get_next_page_url(soup)
  /\ soup' = NoSoup
  /\ product_links' = <<>>
  /\ link' = None
  /\ events' = PageDelay
  /\ UNCHANGED <<site, config, session, request, now, products, processed_asins,
                 page_count, product_soup>>

Next ==
  \/ WhileLoop
  \/ Attempt
  \/ SearchResult
  \/ ForLink
  \/ ProductResult
  \/ NextPage

Spec == Init /\ [][Next]_vars


\* the scraper never rotates: the runs whose counters stay bounded for ever
FairInit == Init /\ session_rotation_enabled = FALSE

\* the coroutine is never starved: whenever it can take a step it takes one
FairSpec == FairInit /\ [][Next]_vars /\ WF_vars(Next)

\* ================================================================ claims

\* C1: in every reachable state the number of emitted records (the length of
\* products) is at most the configured maxProducts, maxProducts = 0 included.
C1_EmittedAtMostMax == Len(products) <= max_products

\* the break was taken: maxProducts >= 1 records are out and a link is left
C1_Witness ==
  /\ pc = "next"
  /\ product_links # <<>>
  /\ max_products >= 1
  /\ Len(products) = max_products

\* C2: no two emitted records carry the same non-empty ASIN.
C2_NoDuplicateAsin ==
  \A i, j \in 1..Len(products) :
    (i # j /\ products[i].asin # None) => products[i].asin # products[j].asin

\* a link was skipped whose ASIN is that of a record emitted from another URL
C2_Witness ==
  /\ pc = "for"
  /\ link # None
  /\ \E i \in 1..Len(products) :
       /\ products[i].asin # None
       /\ products[i].asin = extract_asin(link)
       /\ products[i].url # link

C3_PriceWithinLimit ==
  \A i \in 1..Len(products) :
    products[i].price = None \/ products[i].price[1] <= PriceLimit

C3_OverLimitPage ==
  /\ pc = "product_ret"
  /\ product_soup.ok
  /\ product_soup.price # None
  /\ product_soup.price[1] > PriceLimit

\* C3: every emitted record has a price that is absent or <= 100, and the step
\* that handles a product page whose extracted price is above 100 leaves the
\* emitted records as they are.
C3_EmittedPriceAtMostLimit ==
  /\ []C3_PriceWithinLimit
  /\ [][C3_OverLimitPage => products' = products]_vars

\* a page priced 150 has been fetched while a record could still be emitted,
\* one record priced 100 being out already
C3_Witness ==
  /\ pc = "product_ret"
  /\ product_soup.price = <<150>>
  /\ Len(products) = 1
  /\ products[1].price = <<100>>
  /\ Len(products) < max_products

\* C4 as stated: the threshold lies within [sessionMinRequests,
\* sessionMaxRequests] for either value of sessionRotationEnabled.
C4_ThresholdAlwaysInRange ==
  session_rotation_limit \in session_min_requests..session_max_requests

\* C4 as amended: with rotation enabled the threshold of every session (the
\* initial one, and each one made by a scheduled or an emergency rotation) lies
\* within [sessionMinRequests, sessionMaxRequests]; with rotation disabled the
\* threshold of the one session is infinite.
C4_ThresholdInRangeWhenEnabled ==
  IF session_rotation_enabled
  THEN session_rotation_limit \in session_min_requests..session_max_requests
  ELSE session_rotation_limit = Inf

\* a scheduled and an emergency rotation have both drawn a threshold
C4_Witness ==
  /\ session_rotation_enabled
  /\ session_count = 2
  /\ emergency_rotations = 1

\* C5: with sessionRotationEnabled false the session id is the initial one in
\* every reachable state and both rotation counters are 0.
C5_OneSessionWhenDisabled ==
  ~session_rotation_enabled =>
    /\ current_session_id = InitialSessionId(0)
    /\ session_count = 0
    /\ emergency_rotations = 0

\* rotation is off, a proxy is configured and a 503 has just been received
C5_Witness ==
  /\ ~session_rotation_enabled
  /\ proxy_configuration
  /\ status = "503"
  /\ current_session_requests >= 2

\* C6: every attempt that receives a 503 while rotation is enabled and a proxy
\* is configured replaces the session id, resets the request count to 0 and
\* adds one to the emergency-rotation counter, in that same step.
C6_EmergencyRotationOn503 ==
  [][(pc = "request" /\ status' = "503"
        /\ session_rotation_enabled /\ proxy_configuration)
      => /\ current_session_id' # current_session_id
         /\ current_session_requests' = 0
         /\ emergency_rotations' = emergency_rotations + 1]_vars

\* the last attempt of a call received the 503 and rotated
C6_Witness ==
  /\ status = "503"
  /\ attempt = Retries
  /\ session_rotation_enabled /\ proxy_configuration
  /\ emergency_rotations >= 1
  /\ current_session_requests = 0
  /\ current_session_id[1] = "emergency_session_"

\* C7: the crawl loop eventually reaches Terminal, whatever the site does.
C7_ReachesTerminal == <>(pc = "Terminal")

\* C8: an attempt that starts with rotation due (enabled and request count >=
\* threshold) issues its GET under a new session, not under the one that is due.
C8_RotationBeforeEveryAttempt ==
  [][(pc = "request" /\ ShouldRotate /\ gets' = gets + 1)
      => sent_session' # current_session_id]_vars

\* C9: with rotation enabled the request count of the active session never
\* exceeds its threshold.
C9_CountAtMostThreshold ==
  session_rotation_enabled => current_session_requests <= session_rotation_limit

\* C10: a call of make_request issues at most Retries GETs; while it is still
\* retrying no attempt has received a 200; it returns a document exactly when
\* its last attempt received a 200, and None only after Retries attempts.
C10_FetchAttempts ==
  /\ gets <= attempt
  /\ attempt <= Retries
  /\ pc = "request" => (attempt < Retries /\ status # "200")
  /\ pc \in {"search_ret", "product_ret"} =>
       LET ret == IF caller = "search" THEN soup ELSE product_soup
       IN  /\ ret.ok <=> status = "200"
           /\ ~ret.ok => attempt = Retries

\* a call that gave up: Retries attempts, a GET in each, the last one a 503
C10_Witness ==
  /\ pc = "search_ret"
  /\ ~soup.ok
  /\ attempt = Retries
  /\ gets = Retries
  /\ status = "503"

\* C11: when the fetch of a search page fails, the crawl loop goes straight to
\* Terminal with the emitted records and seen_asins as they were; no step is
\* taken from Terminal (no GET, no record); and when it was the first page that
\* failed, nothing has been emitted.
C11_FailedSearchStep ==
  (pc = "search_ret" /\ ~soup.ok) =>
    /\ pc' = "Terminal"
    /\ products' = products
    /\ processed_asins' = processed_asins
    /\ gets' = 0

C11_EndedByFailedFetch ==
  /\ pc = "Terminal"
  /\ current_url # None
  /\ Len(products) < max_products

C11_FailedSearchEndsCrawl ==
  /\ [][C11_FailedSearchStep]_vars
  /\ [][pc = "Terminal" => UNCHANGED vars]_vars
  /\ []((C11_EndedByFailedFetch /\ page_count = 1) => products = <<>>)

C11_Witness ==
  /\ C11_EndedByFailedFetch
  /\ page_count = 2
  /\ Len(products) = 1

\* C12: when the fetch of a product page fails only that product is skipped:
\* the step taken on the failure emits nothing, adds nothing to seen_asins and
\* returns to the link loop with the remaining links and the search page kept;
\* the link loop fetches the next link that is due, and when no link is left it
\* goes to the next-page lookup, which reads the link of that search page.
C12_FailedProductStep ==
  (pc = "product_ret" /\ ~product_soup.ok) =>
    /\ pc' = "for"
    /\ products' = products
    /\ processed_asins' = processed_asins
    /\ product_links' = product_links
    /\ soup' = soup
    /\ current_url' = current_url

C12_LinkDue ==
  /\ product_links # <<>>
  /\ Len(products) < max_products
  /\ LET asin == extract_asin(Head(product_links))
     IN  asin = None \/ asin \notin processed_asins

C12_LinkLoopStep ==
  pc = "for" =>
    IF C12_LinkDue
    THEN /\ pc' = "request"
         /\ url' = Head(product_links)
         /\ product_links' = Tail(product_links)
    ELSE IF product_links = <<>>
         THEN pc' = "next"
         ELSE pc' \in {"for", "next"}

C12_FailedProductOnlySkipped ==
  /\ [][C12_FailedProductStep]_vars
  /\ [][C12_LinkLoopStep]_vars
  /\ [][pc = "next" => (pc' = "while" /\ current_url' = soup.next)]_vars

\* the second product of a page failed after the first was emitted
C12_Witness ==
  /\ pc = "product_ret"
  /\ ~product_soup.ok
  /\ extract_asin(link) # None
  /\ Len(products) = 1
  /\ soup.next # None

\* C13: a product page is fetched only for the link the loop has reached, with
\* its ASIN not in seen_asins and the emitted count below maxProducts; when that
\* fetch succeeds and the price is absent or at most the limit, the step
\* appends exactly one record, the record of that link, and the link's ASIN
\* (when there is one) is in seen_asins afterwards.
C13_ProductFetchIsDue ==
  (pc \in {"request", "product_ret"} /\ caller = "product") =>
    /\ url = link
    /\ Len(products) < max_products
    /\ LET asin == extract_asin(link)
       IN  asin = None \/ asin \notin processed_asins

C13_EmitStep ==
  (/\ pc = "product_ret"
   /\ product_soup.ok
   /\ product_soup.price = None \/ product_soup.price[1] <= PriceLimit) =>
    /\ Len(products') = Len(products) + 1
    /\ SubSeq(products', 1, Len(products)) = products
    /\ products'[Len(products')].url = link
    /\ products'[Len(products')].price = product_soup.price
    /\ LET asin == extract_asin(link)
       IN  asin # None => asin \in processed_asins'

C14_EntersTerminal ==
  (pc # "Terminal" /\ pc' = "Terminal") =>
    \/ pc = "while" /\ Len(products) >= max_products
    \/ pc = "while" /\ current_url = None
    \/ pc = "search_ret" /\ ~soup.ok

C14_UrlLost ==
  (current_url # None /\ current_url' = None) =>
    (pc = "next" /\ soup.ok /\ soup.next = None)

C14_NextPageStep ==
  pc = "next" => (soup.ok /\ pc' = "while" /\ current_url' = soup.next)

C14_LoopTestStep ==
  pc = "while" =>
    IF current_url # None /\ Len(products) < max_products
    THEN pc' = "request" /\ caller' = "search" /\ url' = current_url
    ELSE pc' = "Terminal"

C14_TerminalReasons ==
  /\ [][C14_EntersTerminal /\ C14_UrlLost]_vars
  /\ [][C14_NextPageStep /\ C14_LoopTestStep]_vars
  /\ []((pc = "request" /\ caller = "search") => url = current_url)

\* the run ended on a second page without a next-page link, below maxProducts
C14_Witness ==
  /\ pc = "Terminal"
  /\ current_url = None
  /\ Len(products) < max_products
  /\ page_count = 2

\* C15: with a proxy configured every GET goes through the proxy URL requested
\* for the session id that is current when the attempt is made: the same URL as
\* the previous GET of the call when the session id is the same, and a URL
\* of the new id, not of the superseded one, when a rotation came in between.
C15_GetStep == proxy_configuration /\ gets' = gets + 1

C15_ProxyOfCurrentSession ==
  C15_GetStep =>
    /\ proxy_url' = new_url(current_session_id)
    /\ (gets > 0 /\ sent_session = current_session_id) =>
         proxy_url' = new_url(sent_session)
    /\ (gets > 0 /\ sent_session # current_session_id) =>
         (proxy_url' # proxy_url /\ proxy_url' # new_url(sent_session))

C15_ProxyFollowsSession ==
  /\ [][C15_ProxyOfCurrentSession]_vars
  /\ [](proxy_url # None => (proxy_configuration /\ proxy_url = new_url(sent_session)))

\* the second GET of a call went out after the 503 of the first forced a rotation
C15_Witness ==
  /\ proxy_configuration
  /\ gets = 2
  /\ current_session_id = EmergencySessionId(now, 1)
  /\ current_session_requests = 1
  /\ proxy_url = new_url(current_session_id)

\* C16: every rotation, scheduled or emergency, replaces the session id, sets
\* the request count to 0 and adds exactly 1 to session_count; an emergency
\* rotation adds exactly 1 to emergency_rotations and a scheduled one leaves it;
\* no other step touches the id or the two counters. So session_count is the
\* number of rotations so far, emergency_rotations the number of emergency
\* ones among them, and emergency_rotations <= session_count.
C16_ScheduledRotation ==
  /\ pc \in {"while", "for"}
  /\ pc' = "request"
  /\ session_rotation_enabled
  /\ current_session_requests >= session_rotation_limit

C16_EmergencyRotation ==
  /\ pc = "request"
  /\ status' = "503"
  /\ proxy_configuration
  /\ session_rotation_enabled

C16_RotationStep ==
  IF C16_ScheduledRotation \/ C16_EmergencyRotation
  THEN /\ current_session_id' # current_session_id
       /\ current_session_requests' = 0
       /\ session_count' = session_count + 1
       /\ emergency_rotations' =
            IF C16_EmergencyRotation THEN emergency_rotations + 1
            ELSE emergency_rotations
       /\ session_ids' = Append(session_ids, current_session_id')
  ELSE UNCHANGED <<current_session_id, session_count, emergency_rotations,
                   session_ids>>

C16_CountersCountRotations ==
  /\ session_count = Len(session_ids) - 1
  /\ emergency_rotations =
       Cardinality({i \in 1..Len(session_ids) :
                      session_ids[i][1] = "emergency_session_"})
  /\ emergency_rotations <= session_count
  /\ current_session_id = session_ids[Len(session_ids)]

C16_RotationEffects ==
  /\ [][C16_RotationStep]_vars
  /\ []C16_CountersCountRotations

\* a run that has made a scheduled and an emergency rotation
C16_Witness ==
  /\ session_count = 2
  /\ emergency_rotations = 1
  /\ Len(session_ids) = 3
  /\ current_session_requests = 0

\* C17: no session id is used twice in a run: the id given by a rotation,
\* scheduled or emergency, differs from the initial id and from the id of every
\* earlier session, also when rotations fall in the same clock second.
C17_SessionIdsDistinct ==
  \A i, j \in 1..Len(session_ids) : session_ids[i] = session_ids[j] => i = j

\* two emergency rotations in the clock second the run started in
C17_Witness ==
  /\ emergency_rotations = 2
  /\ now = 0
  /\ Len(session_ids) = 3

\* C18: a link without an ASIN is never skipped by the dedupe test and adds
\* nothing to seen_asins: whenever the link loop reaches one with the emitted
\* count below maxProducts its product page is requested, and the step taken
\* on its product page leaves seen_asins as it was (which holds ASINs only).
C18_NoAsinLinkFetched ==
  (/\ pc = "for"
   /\ product_links # <<>>
   /\ extract_asin(Head(product_links)) = None
   /\ Len(products) < max_products) =>
    /\ pc' = "request"
    /\ caller' = "product"
    /\ url' = Head(product_links)

C18_NoAsinNothingRemembered ==
  (pc = "product_ret" /\ extract_asin(link) = None) =>
    processed_asins' = processed_asins

C18_NoAsinLinkNeverDeduped ==
  /\ [][C18_NoAsinLinkFetched /\ C18_NoAsinNothingRemembered]_vars
  /\ [](\A a \in processed_asins : Len(a) = AsinLen)

\* the same link without an ASIN was emitted from two pages
C18_Witness ==
  /\ Len(products) = 2
  /\ products[1].url = UrlN
  /\ products[2].url = UrlN
  /\ page_count = 2
  /\ processed_asins = {}

\* C19: seen_asins is exactly the set of the ASINs of the emitted records that
\* have one, so it has at most as many members as records were emitted; it
\* never shrinks and grows only in a step that emits a record, by that
\* record's ASIN; and after the step taken on a product page that failed or
\* was price-filtered the product's ASIN is not in it.
C19_SeenIsEmitted ==
  /\ processed_asins =
       {products[i].asin : i \in 1..Len(products)} \ {None}
  /\ Cardinality(processed_asins) <= Len(products)

C19_SeenGrowsWithEmission ==
  /\ processed_asins \subseteq processed_asins'
  /\ processed_asins' # processed_asins =>
       /\ Len(products') = Len(products) + 1
       /\ processed_asins' =
            processed_asins \cup {products'[Len(products')].asin}

C19_NotEmittedNotSeen ==
  (/\ pc = "product_ret"
   /\ \/ ~product_soup.ok
      \/ product_soup.price # None /\ product_soup.price[1] > PriceLimit) =>
    /\ products' = products
    /\ extract_asin(link) \notin processed_asins'

C19_SeenAsinsAreEmittedAsins ==
  /\ []C19_SeenIsEmitted
  /\ [][C19_SeenGrowsWithEmission /\ C19_NotEmittedNotSeen]_vars

\* a product above the price limit was fetched after another had been emitted
C19_Witness ==
  /\ pc = "product_ret"
  /\ product_soup.ok
  /\ product_soup.price # None
  /\ product_soup.price[1] > PriceLimit
  /\ extract_asin(link) # None
  /\ Cardinality(processed_asins) = 1

\* C20: with rotation enabled (and 1 <= sessionMinRequests <=
\* sessionMaxRequests) the request count of the session never exceeds its
\* threshold by more than Retries - 1.
C20_CountAtMostThresholdPlusRetries ==
  (/\ session_rotation_enabled
   /\ 1 <= session_min_requests
   /\ session_min_requests <= session_max_requests) =>
    current_session_requests <= session_rotation_limit + Retries - 1

\* a call that began one request below the threshold and failed Retries times
C20_Witness ==
  /\ session_rotation_enabled
  /\ gets = Retries
  /\ current_session_requests = session_rotation_limit + Retries - 1

\* C21: an attempt that ends in a status other than 200 and 503, or in an
\* error, or in a 503 with rotation disabled or without a proxy, leaves the
\* session id, the threshold, session_count, emergency_rotations, seen_asins
\* and the emitted records as they were; of the session state only the request
\* count changes, by 1 when a GET was issued (it is followed up to CountCap
\* when rotation is disabled).
C21_PlainFailure ==
  /\ pc = "request"
  /\ attempt' = attempt + 1
  /\ \/ status' \in {"404", "error", "proxy_error"}
     \/ status' = "503" /\ ~(proxy_configuration /\ session_rotation_enabled)

C21_FailureFrame ==
  C21_PlainFailure =>
    /\ UNCHANGED <<current_session_id, session_rotation_limit, session_count,
                   emergency_rotations, session_ids>>
    /\ UNCHANGED <<processed_asins, products>>
    /\ current_session_requests' \in
         {current_session_requests, current_session_requests + 1}
    /\ (session_rotation_enabled /\ gets' = gets + 1) =>
         current_session_requests' = current_session_requests + 1

C21_FailedAttemptChangesCountOnly == [][C21_FailureFrame]_vars

\* a 503 was received with rotation enabled and no proxy: the session goes on
C21_Witness ==
  /\ pc = "request"
  /\ status = "503"
  /\ session_rotation_enabled
  /\ ~proxy_configuration
  /\ session_count = 0
  /\ current_session_requests = 1

\* C22: every GET of a target URL comes, in its own attempt, after the
\* politeness delay of that attempt: an attempt that issues a GET has slept the
\* delay first, so a delay lies between any two GETs of a run, the first GET
\* of the next search page and the first GET after a rotation included.
C22_DelayBeforeGetIn(ev) ==
  \A i \in 1..Len(ev) :
    ev[i] = "get" => \E j \in 1..(i - 1) : ev[j] = "delay"

C22_GetStep ==
  gets' = gets + 1 =>
    /\ \E i \in 1..Len(events') : events'[i] = "get"
    /\ C22_DelayBeforeGetIn(events')

C22_NoGetElsewhere ==
  (\E i \in 1..Len(events') : events'[i] = "get") =>
    (pc = "request" /\ gets' = gets + 1)

C22_DelayBeforeEveryGet ==
  /\ [][C22_GetStep /\ C22_NoGetElsewhere]_vars
  /\ []C22_DelayBeforeGetIn(events)

\* the first GET of a second search page, issued right after a rotation
C22_Witness ==
  /\ pc = "search_ret"
  /\ page_count = 2
  /\ session_count = 1
  /\ current_session_requests = 1
  /\ gets = 1
  /\ events = <<"delay", "get">>

\* C23: a failed attempt is followed by the backoff of its kind before the
\* call goes on to its next attempt: the cooldown is slept after every 503,
\* the escalated delay after every error that leaves an attempt to make, each
\* as the last thing of the failed attempt (so before the next GET), and
\* after any other status that is not 200 nothing is slept.
C23_LastEvent == IF events' = <<>> THEN None ELSE <<events'[Len(events')]>>

C23_BackoffSlept(kind) == \E i \in 1..Len(events') : events'[i] = kind

C23_AttemptStep ==
  (pc = "request" /\ attempt' = attempt + 1) =>
    /\ status' = "503" =>
         (C23_LastEvent = <<"cooldown">> /\ ~C23_BackoffSlept("escalated"))
    /\ (status' \in {"error", "proxy_error"} /\ pc' = "request") =>
         (C23_LastEvent = <<"escalated">> /\ ~C23_BackoffSlept("cooldown"))
    /\ status' \in {"200", "404"} =>
         (~C23_BackoffSlept("cooldown") /\ ~C23_BackoffSlept("escalated"))

====
